---- MODULE Spec2Model ----
(***************************************************************************)
(* Model of the Star Wars character scraper (src/src/main.rs): extraction  *)
(* of table rows into Character records, the dataset.json / bulk.json      *)
(* artifacts, the bulk encoding, and the HTTP exchanges with the search    *)
(* backend made by the index and search subcommands.                       *)
(*                                                                         *)
(* Text is modelled as a sequence of tokens.  A token is one character     *)
(* ("a", "NL" for line feed, "CR" for carriage return, "QUOTE", "BSL" for  *)
(* backslash) or a run of characters that holds none of these.             *)
(***************************************************************************)
EXTENDS Integers, Sequences, FiniteSets, TLC

\* Bounds of the extraction model.
MaxRows == 2
MaxNodes == 2
MaxLen == 2

\* if dat.len() == 3
CellsPerRecord == 3

VARIABLES
    doc,         \* the rows of the source page matched by "table.wikitable > tbody > tr"
    phase,       \* position of the extraction model: "input", "parsed"; "pipeline" otherwise
    characters,  \* the Vec<Character> collected by the extraction model
    cell,        \* one table cell: its text nodes
    cellText,    \* the text extracted from that cell
    cmd,         \* the subcommand of each invocation of the program
    cwd,         \* the working directory of each invocation
    pc,          \* the position of each invocation
    fs,          \* the files of each directory: settings.json, dataset.json, bulk.json
    fs0,         \* the files as they were before any invocation started
    issued,      \* the identifiers uuid::Uuid::new_v4 has returned so far
    store,       \* the documents of the backend's index, by identifier
    net,         \* the HTTP requests each invocation has issued, in order
    log,         \* the error! messages each invocation has logged
    results,     \* the stages each invocation has finished, with their results
    touched,     \* the files each invocation has created, truncated or written
    extracted,   \* the characters each invocation's generate_dataset collected
    values,      \* the values each invocation's generate_bulk_input parsed
    encoded,     \* the text each invocation's generate_bulk_input wrote to bulk.json
    chunks       \* the Vec of chunks held by each invocation's import_bulk_input

extractVars == <<doc, phase, characters, cell, cellText>>

runVars == <<cmd, cwd, pc, fs, fs0, issued, store, net, log, results, touched,
             extracted, values, encoded, chunks>>

vars == <<extractVars, runVars>>

----------------------------------------------------------------------------
\* Helpers on sequences.

RECURSIVE Concat(_)
\* join(""): the concatenation, in order, of a sequence of texts
Concat(ss) ==
    IF ss = <<>> THEN <<>> ELSE Head(ss) \o Concat(Tail(ss))

Range(s) == { s[i] : i \in DOMAIN s }

SeqsUpTo(S, n) == UNION { [1..k -> S] : k \in 0..n }

----------------------------------------------------------------------------
\* generate_dataset: extraction of the records.

\* String::pop: removes the last character, whatever it is; no effect on ""
Pop(t) ==
    IF t = <<>> THEN <<>> ELSE SubSeq(t, 1, Len(t) - 1)

\* cell.text().collect::<Vec<_>>().join("")
JoinedText(c) == Concat(c.nodes)

\* .map(|cell| ...join("")).map(|mut t| { t.pop(); t })
ExtractCellText(c) == Pop(JoinedText(c))

\* row.select(&cells_selector): the td elements of the row, in document order
SelectCells(row) == SelectSeq(row, LAMBDA c : c.tag = "td")

\* dat: the extracted texts of the row's cells
Dat(row) ==
    LET cells == SelectCells(row)
    IN  [ i \in 1..Len(cells) |-> ExtractCellText(cells[i]) ]

\* a variant of RowToCharacter that accepts a row of three cells or more
RowToCharacterAtLeast(row) ==
    LET dat == Dat(row)
    IN  IF Len(dat) >= CellsPerRecord
        THEN [ok |-> TRUE,
              val |-> [name |-> dat[1], portrayal |-> dat[2], description |-> dat[3]]]
        ELSE [ok |-> FALSE]

\* if dat.len() == 3 { Ok(Character {...}) } else { Err("oh no!") }
RowToCharacter(row) ==
    LET dat == Dat(row)
    IN  IF Len(dat) = CellsPerRecord
        THEN [ok |-> TRUE,
              val |-> [name |-> dat[1], portrayal |-> dat[2], description |-> dat[3]]]
        ELSE [ok |-> FALSE]

RECURSIVE FilterMapOk(_)
\* .filter_map(|rc| rc.ok()).collect::<Vec<_>>()
FilterMapOk(rs) ==
    IF rs = <<>> THEN <<>>
    ELSE IF Head(rs).ok THEN <<Head(rs).val>> \o FilterMapOk(Tail(rs))
         ELSE FilterMapOk(Tail(rs))

\* fragment.select(&rows_selector).map(...).filter_map(...).collect()
ExtractCharacters(rows) ==
    FilterMapOk([ i \in 1..Len(rows) |-> RowToCharacter(rows[i]) ])

\* cells of the pages the model reads: td and th elements and their text nodes
TdA == [tag |-> "td", nodes |-> << <<"a">>, <<"NL">> >>]
TdB == [tag |-> "td", nodes |-> << <<"b", "NL">> >>]
TdQ == [tag |-> "td", nodes |-> << <<"c", "NL">>, <<"QUOTE", "CR", "NL">> >>]
ThH == [tag |-> "th", nodes |-> << <<"h", "NL">> >>]

----------------------------------------------------------------------------
\* Invocations of the program, directories and files.

Runs == {"A", "B"}

Dirs == {"d1", "d2"}

FileNames == {"settings.json", "dataset.json", "bulk.json"}

\* create_index("starwars"), generate_bulk_input("starwars"), ...
IndexName == "starwars"

\* the identifiers uuid::Uuid::new_v4 can return; "u0" names a document of an
\* earlier run
Uuids == {"u0", "u1", "u2", "u3", "u4"}

NoFile == [exists |-> FALSE, content |-> <<>>]

\* std::fs::File::create: the file exists and is empty afterwards
FileCreate(f) == [exists |-> TRUE, content |-> <<>>]

\* write_all / to_writer on the open file: the text is appended
FileWrite(f, text) == [exists |-> TRUE, content |-> f.content \o text]

----------------------------------------------------------------------------
\* serde_json: the JSON texts written and parsed by the program.
\* A parsed serde_json::Value is [t |-> "s", v |-> text] for a string,
\* [t |-> "o", v |-> map from keys to Values] for an object (a BTreeMap),
\* [t |-> "a", v |-> sequence of Values] for an array.

\* one character of a string, as serde_json writes it inside quotes
EscapeChar(c) ==
    CASE c = "QUOTE" -> <<"BSL", "QUOTE">>
      [] c = "BSL"   -> <<"BSL", "BSL">>
      [] c = "NL"    -> <<"BSL", "n">>
      [] c = "CR"    -> <<"BSL", "r">>
      [] OTHER       -> <<c>>

\* a string, written as a JSON string
WriteString(s) ==
    <<"QUOTE">> \o Concat([ i \in 1..Len(s) |-> EscapeChar(s[i]) ]) \o <<"QUOTE">>

\* one field of a struct or one entry of a map, pretty-printed at depth 2
PrettyField(key, s, last) ==
    <<"NL", "SP", "SP">> \o WriteString(key) \o <<":", "SP">> \o WriteString(s)
        \o (IF last THEN <<>> ELSE <<",">>)

\* #[derive(Serialize)] struct Character: the fields in declaration order
PrettyCharacter(c) ==
    <<"NL", "SP", "{">>
        \o PrettyField(<<"name">>, c.name, FALSE)
        \o PrettyField(<<"portrayal">>, c.portrayal, FALSE)
        \o PrettyField(<<"description">>, c.description, TRUE)
        \o <<"NL", "SP", "}">>

\* serde_json::to_writer_pretty(&mut file, &characters)
ToWriterPretty(cs) ==
    IF cs = <<>> THEN <<"[", "]">>
    ELSE <<"[">>
         \o Concat([ i \in 1..Len(cs) |->
                PrettyCharacter(cs[i]) \o (IF i < Len(cs) THEN <<",">> ELSE <<>>) ])
         \o <<"NL", "]">>

\* The parser reads the text token by token.  Its state: what it expects
\* (mode), the arrays and objects it is inside of, innermost last (stack),
\* the string it is reading (acc; a key if iskey), and the finished value.
ParserStart ==
    [mode |-> "value", stack |-> <<>>, acc |-> <<>>, iskey |-> FALSE,
     done |-> FALSE, result |-> [t |-> "none"]]

ArrayFrame == [t |-> "a", a |-> <<>>, m |-> <<>>, key |-> <<>>]

ObjectFrame == [t |-> "o", a |-> <<>>, m |-> <<>>, key |-> <<>>]

ParserFailed(st) == [st EXCEPT !.mode = "fail"]

\* the value v is complete: it is the element or entry of the innermost
\* array or object, or the whole text's value
ValueComplete(st, v) ==
    LET n == Len(st.stack)
    IN  IF n = 0 THEN [st EXCEPT !.mode = "after", !.done = TRUE, !.result = v]
        ELSE IF st.stack[n].t = "a"
             THEN [st EXCEPT !.mode = "after", !.stack[n].a = Append(@, v)]
        ELSE LET top == st.stack[n]
                 m2 == [ key \in DOMAIN top.m \cup {top.key} |->
                           IF key = top.key THEN v ELSE top.m[key] ]
             IN  [st EXCEPT !.mode = "after", !.stack[n].m = m2]

\* the innermost array or object is closed
FrameComplete(st) ==
    LET n == Len(st.stack)
        top == st.stack[n]
        v == IF top.t = "a" THEN [t |-> "a", v |-> top.a] ELSE [t |-> "o", v |-> top.m]
    IN  ValueComplete([st EXCEPT !.stack = SubSeq(@, 1, n - 1)], v)

\* the parser's state after the token tok
ParserStep(st, tok) ==
    IF st.mode = "fail" THEN st
    ELSE IF st.mode = "str" THEN
        IF tok = "QUOTE" THEN
            IF st.iskey
            THEN [st EXCEPT !.mode = "colon", !.stack[Len(st.stack)].key = st.acc]
            ELSE ValueComplete(st, [t |-> "s", v |-> st.acc])
        ELSE IF tok = "BSL" THEN [st EXCEPT !.mode = "esc"]
        ELSE IF tok \in {"NL", "CR"} THEN ParserFailed(st)
        ELSE [st EXCEPT !.acc = Append(@, tok)]
    ELSE IF st.mode = "esc" THEN
        IF tok = "n" THEN [st EXCEPT !.mode = "str", !.acc = Append(@, "NL")]
        ELSE IF tok = "r" THEN [st EXCEPT !.mode = "str", !.acc = Append(@, "CR")]
        ELSE IF tok \in {"QUOTE", "BSL"} THEN [st EXCEPT !.mode = "str", !.acc = Append(@, tok)]
        ELSE ParserFailed(st)
    ELSE IF tok \in {"NL", "SP", "CR"} THEN st
    ELSE IF st.mode \in {"value", "value_or_end"} THEN
        IF tok = "QUOTE" THEN [st EXCEPT !.mode = "str", !.iskey = FALSE, !.acc = <<>>]
        ELSE IF tok = "{" THEN [st EXCEPT !.mode = "key_or_end", !.stack = Append(@, ObjectFrame)]
        ELSE IF tok = "[" THEN [st EXCEPT !.mode = "value_or_end", !.stack = Append(@, ArrayFrame)]
        ELSE IF tok = "]" /\ st.mode = "value_or_end" THEN FrameComplete(st)
        ELSE ParserFailed(st)
    ELSE IF st.mode \in {"key", "key_or_end"} THEN
        IF tok = "QUOTE" THEN [st EXCEPT !.mode = "str", !.iskey = TRUE, !.acc = <<>>]
        ELSE IF tok = "}" /\ st.mode = "key_or_end" THEN FrameComplete(st)
        ELSE ParserFailed(st)
    ELSE IF st.mode = "colon" THEN
        IF tok = ":" THEN [st EXCEPT !.mode = "value"] ELSE ParserFailed(st)
    ELSE IF st.stack = <<>> THEN ParserFailed(st)
    ELSE IF tok = "," THEN
        [st EXCEPT !.mode = IF st.stack[Len(st.stack)].t = "a" THEN "value" ELSE "key"]
    ELSE IF tok = "]" /\ st.stack[Len(st.stack)].t = "a" THEN FrameComplete(st)
    ELSE IF tok = "}" /\ st.stack[Len(st.stack)].t = "o" THEN FrameComplete(st)
    ELSE ParserFailed(st)

RECURSIVE ParserRun(_, _, _, _)
\* the parser's state after the tokens of ts from position lo to position hi
\* (the range is halved to keep the evaluation shallow; the parser stays
\* failed once it has failed)
ParserRun(ts, lo, hi, st) ==
    IF lo > hi THEN st
    ELSE IF lo = hi THEN ParserStep(st, ts[lo])
    ELSE LET mid == (lo + hi) \div 2
             left == ParserRun(ts, lo, mid, st)
         IN  IF left.mode = "fail" THEN left ELSE ParserRun(ts, mid + 1, hi, left)

\* serde_json::from_str::<Value>(&contents): one value, then only whitespace
FromStr(ts) ==
    LET st == ParserRun(ts, 1, Len(ts), ParserStart)
    IN  IF st.mode = "after" /\ st.stack = <<>> /\ st.done
        THEN [ok |-> TRUE, val |-> st.result]
        ELSE [ok |-> FALSE, val |-> [t |-> "none"]]

\* the keys of the program's objects, in the order a BTreeMap iterates them
KeyOrder ==
    << <<"description">>, <<"fields">>, <<"multi_match">>, <<"name">>,
       <<"portrayal">>, <<"query">> >>

RECURSIVE WriteValue(_)
\* serde_json::to_writer(&mut file, &value): compact, object keys in map order
WriteValue(x) ==
    IF x.t = "s" THEN WriteString(x.v)
    ELSE IF x.t = "a" THEN
        <<"[">>
        \o Concat([ i \in 1..Len(x.v) |->
               WriteValue(x.v[i]) \o (IF i < Len(x.v) THEN <<",">> ELSE <<>>) ])
        \o <<"]">>
    ELSE
        LET keys == SelectSeq(KeyOrder, LAMBDA k : k \in DOMAIN x.v)
        IN  <<"{">>
            \o Concat([ i \in 1..Len(keys) |->
                   WriteString(keys[i]) \o <<":">> \o WriteValue(x.v[keys[i]])
                       \o (IF i < Len(keys) THEN <<",">> ELSE <<>>) ])
            \o <<"}">>

----------------------------------------------------------------------------
\* generate_bulk_input and import_bulk_input: the bulk payload.

\* format!("{{ \"index\": {{ \"_index\": \"{}\", \"_type\": \"_doc\", \"_id\": \"{}\" }} }}\n", name, id)
MetaLine(name, id) ==
    <<"{ index: { _index: ", "QUOTE", name, "QUOTE", ", _type: _doc, _id: ",
      "QUOTE", id, "QUOTE", " } }", "NL">>

\* a variant of IdOfCall with new_v4 called once, before the loop
IdHoisted(ids, i) == ids[1]

\* let id = uuid::Uuid::new_v4(), inside the closure: the i-th call's result
IdOfCall(ids, i) == ids[i]

\* the three writes of one iteration of for_each
BulkOperation(name, id, value) ==
    MetaLine(name, id) \o WriteValue(value) \o <<"NL">>

\* what values.iter().for_each(...) writes to bulk.json for the first k values
BulkText(name, ids, vals, k) ==
    Concat([ i \in 1..k |-> BulkOperation(name, IdOfCall(ids, i), vals[i]) ])

\* BufRead::lines: the text up to each line feed, without the line feed and
\* without a carriage return before it; a last line with no line feed counts
SplitLines(ts) ==
    LET feeds == { i \in 1..Len(ts) : ts[i] = "NL" }
        n == Cardinality(feeds)
        \* the position of the k-th line feed; 0 for k = 0
        Feed(k) == IF k = 0 THEN 0
                   ELSE CHOOSE p \in feeds : Cardinality({ q \in feeds : q <= p }) = k
        last == Feed(n)
        StripCr(l) == IF l # <<>> /\ l[Len(l)] = "CR" THEN SubSeq(l, 1, Len(l) - 1) ELSE l
        terminated == [ k \in 1..n |-> StripCr(SubSeq(ts, Feed(k - 1) + 1, Feed(k) - 1)) ]
    IN  IF last < Len(ts) THEN Append(terminated, SubSeq(ts, last + 1, Len(ts)))
        ELSE terminated

\* buf.lines().map(|l| l.map(|mut z| { z.push('\n'); z })).collect::<Vec<_>>()
CollectChunks(text) ==
    LET ls == SplitLines(text)
    IN  [ i \in 1..Len(ls) |-> Append(ls[i], "NL") ]

----------------------------------------------------------------------------
\* Results of the stages and HTTP exchanges.

\* what becomes of one request: no response at all (transport = FALSE), or a
\* response with its status, its body and whether the body can be read
Exchanges ==
    { [transport |-> FALSE, status |-> 0, body |-> "", readable |-> FALSE],
      [transport |-> TRUE, status |-> 200, body |-> "result", readable |-> TRUE],
      [transport |-> TRUE, status |-> 200, body |-> "result", readable |-> FALSE],
      [transport |-> TRUE, status |-> 400, body |-> "bad request", readable |-> TRUE],
      [transport |-> TRUE, status |-> 503, body |-> "unavailable", readable |-> FALSE] }

\* a stage that exchanges nothing with the backend
NoExchange == [transport |-> FALSE, status |-> 0, body |-> "", readable |-> FALSE]

\* a variant of IsSuccess that lets 4xx statuses pass
IsSuccessOrClientError(status) == status >= 200 /\ status < 500

\* resp.status().is_success(): the status is in 200..=299
IsSuccess(status) == status >= 200 /\ status < 300

\* resp.status().as_str()
StatusStr(status) ==
    CASE status = 200 -> "200"
      [] status = 400 -> "400"
      [] status = 503 -> "503"
      [] OTHER -> "000"

Ok == [outcome |-> "Ok", cause |-> "none", err |-> <<>>, log |-> <<>>]

\* Err(...) returned to the caller, after the error! messages in logged
Err(cause, msg, logged) ==
    [outcome |-> "Err", cause |-> cause, err |-> msg, log |-> logged]

\* .expect(...) or .unwrap() on a failure
Panic(cause, msg) ==
    [outcome |-> "Panic", cause |-> cause, err |-> msg, log |-> <<>>]

\* create_index, lines 134-149: the result of the exchange x
CreateIndexResult(name, x) ==
    IF ~x.transport THEN Err("transport", <<"error sending request">>, <<>>)
    ELSE IF IsSuccess(x.status) THEN Ok
    ELSE IF ~x.readable THEN Panic("body", <<"Response">>)
    ELSE Err("status",
             <<"Index '", name, "' failure: status ", StatusStr(x.status)>>,
             << <<"Index '", name, "' creation failed with status ",
                  StatusStr(x.status), ": ", x.body>> >>)

\* import_bulk_input, lines 194-209: the result of the exchange x
ImportResult(name, x) ==
    IF ~x.transport THEN Err("transport", <<"error sending request">>, <<>>)
    ELSE IF IsSuccess(x.status) THEN Ok
    ELSE IF ~x.readable THEN Panic("body", <<"Response">>)
    ELSE Err("status",
             <<"Bulk import ", name, " failure: status ", StatusStr(x.status)>>,
             << <<"Bulk import ", name, " failed with status ",
                  StatusStr(x.status), ": ", x.body>> >>)

\* search_query, lines 217-233: the result of the exchange x
SearchResult(name, x) ==
    IF ~x.transport THEN Err("transport", <<"error sending request">>, <<>>)
    ELSE IF IsSuccess(x.status) THEN
        (IF x.readable THEN Ok ELSE Err("json", <<"error decoding response body">>, <<>>))
    ELSE IF ~x.readable THEN Panic("body", <<"Response">>)
    ELSE Err("status",
             <<"Dataset search failed: status ", name, ": ", StatusStr(x.status)>>,
             << <<"Dataset search failed with status ",
                  StatusStr(x.status), ": ", x.body>> >>)

\* a variant of FollowingStage with generate_bulk_input before generate_dataset
FollowingStageEncodeFirst(stage) ==
    CASE stage = "create_index" -> "generate_bulk_input"
      [] stage = "generate_bulk_input" -> "generate_dataset"
      [] stage = "generate_dataset" -> "import_bulk_input"
      [] OTHER -> "done"

\* the statement that follows a stage in index and in search
FollowingStage(stage) ==
    CASE stage = "create_index" -> "generate_dataset"
      [] stage = "generate_dataset" -> "generate_bulk_input"
      [] stage = "generate_bulk_input" -> "import_bulk_input"
      [] OTHER -> "done"

\* a variant of AfterStage that drops the ? after generate_dataset
AfterStageKeepGoing(stage, outcome) ==
    IF outcome = "Ok" \/ stage = "generate_dataset" THEN FollowingStage(stage)
    ELSE IF outcome = "Err" THEN "failed"
    ELSE "panicked"

\* stage(...).await?; in index and search: the next statement on Ok, the
\* return of the error on Err; a panic ends the process
AfterStage(stage, outcome) ==
    IF outcome = "Ok" THEN FollowingStage(stage)
    ELSE IF outcome = "Err" THEN "failed"
    ELSE "panicked"

----------------------------------------------------------------------------
\* The stages' effects on the files.

\* a variant of LoadSettings that falls back to empty settings
LoadSettingsOrDefault(f) ==
    LET v == FromStr(f.content)
    IN  IF f.exists /\ v.ok THEN [ok |-> TRUE, val |-> v.val, res |-> Ok]
        ELSE [ok |-> TRUE, val |-> [t |-> "o", v |-> <<>>], res |-> Ok]

\* create_index, lines 126-127: read settings.json and parse it
LoadSettings(f) ==
    IF ~f.exists
    THEN [ok |-> FALSE, val |-> [t |-> "none"],
          res |-> Err("io", <<"No such file or directory">>, <<>>)]
    ELSE LET v == FromStr(f.content)
         IN  IF v.ok THEN [ok |-> TRUE, val |-> v.val, res |-> Ok]
             ELSE [ok |-> FALSE, val |-> [t |-> "none"],
                   res |-> Err("json", <<"settings.json: syntax error">>, <<>>)]

\* generate_dataset, lines 115-120: create dataset.json and write the characters
WriteDataset(f, cs, io) ==
    IF io = "create_failed"
    THEN [file |-> f, touched |-> {}, characters |-> cs,
          res |-> Err("io", <<"dataset.json: cannot create">>, <<>>)]
    ELSE IF io = "write_failed"
    THEN LET text == ToWriterPretty(cs)
         IN  [file |-> FileWrite(FileCreate(f), SubSeq(text, 1, Len(text) \div 2)),
              touched |-> {"dataset.json"}, characters |-> cs,
              res |-> Err("io", <<"dataset.json: write failed">>, <<>>)]
    ELSE [file |-> FileWrite(FileCreate(f), ToWriterPretty(cs)),
          touched |-> {"dataset.json"}, characters |-> cs, res |-> Ok]

\* a variant of generate_dataset that creates dataset.json before the fetch
GenerateDatasetCreateFirst(f, rows, fetch, io) ==
    IF fetch # "ok"
    THEN [file |-> FileCreate(f), touched |-> {"dataset.json"}, characters |-> <<>>,
          res |-> Err("fetch", <<"error fetching the page">>, <<>>)]
    ELSE WriteDataset(f, ExtractCharacters(rows), io)

\* generate_dataset, lines 79-121, run on the dataset.json f with the page's rows
GenerateDatasetBody(f, rows, fetch, io) ==
    IF fetch # "ok"
    THEN [file |-> f, touched |-> {}, characters |-> <<>>,
          res |-> Err("fetch", <<"error fetching the page">>, <<>>)]
    ELSE WriteDataset(f, ExtractCharacters(rows), io)

\* generate_bulk_input, lines 155-156: read dataset.json and parse it
ReadDataset(dataset) ==
    IF ~dataset.exists
    THEN [ok |-> FALSE, val |-> [t |-> "none"],
          res |-> Err("io", <<"No such file or directory">>, <<>>)]
    ELSE LET v == FromStr(dataset.content)
         IN  IF v.ok THEN [ok |-> TRUE, val |-> v.val, res |-> Ok]
             ELSE [ok |-> FALSE, val |-> [t |-> "none"],
                   res |-> Err("json", <<"dataset.json: syntax error">>, <<>>)]

\* how many values generate_bulk_input iterates over, given what it read
ValueCount(read) ==
    IF read.ok /\ read.val.t = "a" THEN Len(read.val.v) ELSE 0

\* generate_bulk_input, lines 152-170, run on the bulk.json f; read is what
\* lines 155-156 give, ids what the calls of new_v4 return
GenerateBulkInputBody(f, read, name, ids, io) ==
    IF io = "create_failed"
    THEN [file |-> f, touched |-> {}, vals |-> <<>>, written |-> <<>>,
          res |-> Err("io", <<"bulk.json: cannot create">>, <<>>)]
    ELSE IF ~read.ok
    THEN [file |-> FileCreate(f), touched |-> {"bulk.json"}, vals |-> <<>>, written |-> <<>>,
          res |-> read.res]
    ELSE IF read.val.t # "a"
    THEN [file |-> FileCreate(f), touched |-> {"bulk.json"}, vals |-> <<>>, written |-> <<>>,
          res |-> Panic("array", <<"dataset should be a JSON array">>)]
    ELSE LET vals == read.val.v
         IN  IF io = "write_failed" /\ vals # <<>>
             THEN LET text == MetaLine(name, IdOfCall(ids, 1))
                  IN  [file |-> FileWrite(FileCreate(f), text), touched |-> {"bulk.json"},
                       vals |-> vals, written |-> text,
                       res |-> Panic("io", <<"called Result::unwrap() on an Err value">>)]
             ELSE LET text == BulkText(name, ids, vals, Len(vals))
                  IN  [file |-> FileWrite(FileCreate(f), text), touched |-> {"bulk.json"},
                       vals |-> vals, written |-> text, res |-> Ok]

\* the identifiers of n calls of uuid::Uuid::new_v4: version-4 identifiers
\* are 122 random bits, taken here as never repeating
FreshIdSeqs(n) ==
    { ids \in [1..n -> Uuids \ issued] : \A i, j \in 1..n : i # j => ids[i] # ids[j] }

----------------------------------------------------------------------------
\* Requests and the backend.

\* client.put(&endpoint).header(...).json(&settings)
CreateIndexRequest(name, settings) ==
    [method |-> "PUT", url |-> <<"http://localhost:9200/", name>>,
     body |-> << WriteValue(settings) >>]

\* reqwest::get(url)
PageRequest ==
    [method |-> "GET",
     url |-> <<"https://en.wikipedia.org/wiki/List_of_Star_Wars_characters">>,
     body |-> <<>>]

\* client.put(&endpoint).body(body): the body is the stream of the chunks
BulkRequest(name, cs) ==
    [method |-> "PUT", url |-> <<"http://localhost:9200/", name, "/_doc/_bulk">>,
     body |-> cs]

\* build_query
BuildQuery(query) ==
    LET Str(x) == [t |-> "s", v |-> x]
        Obj(m) == [t |-> "o", v |-> m]
    IN  Obj(<<"query">> :> Obj(<<"multi_match">> :>
            Obj(<<"query">> :> Str(query)
                @@ <<"fields">> :> [t |-> "a",
                                    v |-> <<Str(<<"name^10">>), Str(<<"description">>)>>])))

\* client.get(&endpoint).json(&json)
SearchRequest(name, query) ==
    [method |-> "GET", url |-> <<"http://localhost:9200/", name, "/_search">>,
     body |-> << WriteValue(BuildQuery(query)) >>]

\* the identifier named by a metadata line
MetaId(line) == line[7]

\* the backend's index after a bulk request it answered with success: each
\* document is stored under the identifier of the metadata line before it,
\* replacing the document stored under that identifier, if any
ApplyBulk(docs, cs) ==
    LET n == Len(cs) \div 2
        sent == { MetaId(cs[2 * i - 1]) : i \in 1..n }
        Last(id) == CHOOSE i \in 1..n :
                        /\ MetaId(cs[2 * i - 1]) = id
                        /\ \A j \in 1..n : MetaId(cs[2 * j - 1]) = id => j <= i
    IN  [ id \in DOMAIN docs \cup sent |->
            IF id \in sent THEN cs[2 * Last(id)] ELSE docs[id] ]

----------------------------------------------------------------------------
\* The invocations: main, index, search.

\* the stage has ended with result res, after the exchange x
Finish(r, stage, res, x) ==
    /\ pc' = [pc EXCEPT ![r] = AfterStage(stage, res.outcome)]
    /\ results' = [results EXCEPT ![r] =
           Append(@, [stage |-> stage, outcome |-> res.outcome, cause |-> res.cause,
                      err |-> res.err, status |-> x.status, body |-> x.body])]
    /\ log' = [log EXCEPT ![r] = @ \o res.log]

\* create_index(name)
CreateIndex(r) ==
    /\ pc[r] = "create_index"
    /\ \E x \in Exchanges :
         LET s == LoadSettings(fs[cwd[r]]["settings.json"])
         IN  /\ ~s.ok => x = NoExchange
             /\ net' = [net EXCEPT ![r] =
                    IF s.ok THEN Append(@, CreateIndexRequest(IndexName, s.val)) ELSE @]
             /\ Finish(r, "create_index",
                       IF s.ok THEN CreateIndexResult(IndexName, x) ELSE s.res,
                       IF s.ok THEN x ELSE NoExchange)
    /\ UNCHANGED <<extractVars, cmd, cwd, fs, fs0, issued, store, touched,
                   extracted, values, encoded, chunks>>

\* generate_dataset(url)
GenerateDataset(r) ==
    /\ pc[r] = "generate_dataset"
    /\ \E fetch \in {"ok", "get_failed", "text_failed"},
          io \in {"ok", "create_failed", "write_failed"} :
         LET d == cwd[r]
             out == GenerateDatasetBody(fs[d]["dataset.json"], doc, fetch, io)
         IN  /\ fetch # "ok" => io = "ok"
             /\ net' = [net EXCEPT ![r] = Append(@, PageRequest)]
             /\ fs' = [fs EXCEPT ![d]["dataset.json"] = out.file]
             /\ touched' = [touched EXCEPT ![r] = @ \cup out.touched]
             /\ extracted' = [extracted EXCEPT ![r] = out.characters]
             /\ Finish(r, "generate_dataset", out.res, NoExchange)
    /\ UNCHANGED <<extractVars, cmd, cwd, fs0, issued, store, values, encoded, chunks>>

\* generate_bulk_input(name)
GenerateBulkInput(r) ==
    /\ pc[r] = "generate_bulk_input"
    /\ LET d == cwd[r]
           read == ReadDataset(fs[d]["dataset.json"])
       IN  \E io \in {"ok", "create_failed", "write_failed"} :
             LET n == IF io = "create_failed" THEN 0 ELSE ValueCount(read)
                 calls == IF io = "write_failed" THEN 1 ELSE n
             IN  /\ io = "write_failed" => n > 0
                 /\ \E ids \in FreshIdSeqs(calls) :
                      LET out == GenerateBulkInputBody(fs[d]["bulk.json"], read,
                                                       IndexName, ids, io)
                      IN  /\ fs' = [fs EXCEPT ![d]["bulk.json"] = out.file]
                          /\ touched' = [touched EXCEPT ![r] = @ \cup out.touched]
                          /\ issued' = issued \cup Range(ids)
                          /\ values' = [values EXCEPT ![r] = out.vals]
                          /\ encoded' = [encoded EXCEPT ![r] = out.written]
                          /\ Finish(r, "generate_bulk_input", out.res, NoExchange)
    /\ UNCHANGED <<extractVars, cmd, cwd, fs0, store, net, extracted, chunks>>

\* import_bulk_input(name), lines 173-187: open bulk.json and collect its lines
ImportRead(r) ==
    /\ pc[r] = "import_bulk_input"
    /\ LET f == fs[cwd[r]]["bulk.json"]
       IN  IF f.exists
           THEN /\ chunks' = [chunks EXCEPT ![r] = CollectChunks(f.content)]
                /\ pc' = [pc EXCEPT ![r] = "import_send"]
                /\ UNCHANGED <<results, log>>
           ELSE /\ Finish(r, "import_bulk_input", Panic("io", <<"no such file">>), NoExchange)
                /\ UNCHANGED chunks
    /\ UNCHANGED <<extractVars, cmd, cwd, fs, fs0, issued, store, net, touched,
                   extracted, values, encoded>>

\* import_bulk_input(name), lines 188-209: send the chunks and read the response
ImportSend(r) ==
    /\ pc[r] = "import_send"
    /\ \E x \in Exchanges :
         LET res == ImportResult(IndexName, x)
         IN  /\ net' = [net EXCEPT ![r] = Append(@, BulkRequest(IndexName, chunks[r]))]
             /\ store' = IF res.outcome = "Ok" THEN ApplyBulk(store, chunks[r]) ELSE store
             /\ Finish(r, "import_bulk_input", res, x)
    /\ chunks' = [chunks EXCEPT ![r] = <<>>]
    /\ UNCHANGED <<extractVars, cmd, cwd, fs, fs0, issued, touched, extracted,
                   values, encoded>>

\* the free text of the search subcommand
QueryText == <<"Yoda">>

\* search_query(name, query)
SearchQuery(r) ==
    /\ pc[r] = "search_query"
    /\ \E x \in Exchanges :
         /\ net' = [net EXCEPT ![r] = Append(@, SearchRequest(IndexName, QueryText))]
         /\ Finish(r, "search_query", SearchResult(IndexName, x), x)
    /\ UNCHANGED <<extractVars, cmd, cwd, fs, fs0, issued, store, touched,
                   extracted, values, encoded, chunks>>

----------------------------------------------------------------------------
\* Initial states of the invocations.

\* source pages with no, one and two three-cell rows
Pages ==
    { << <<ThH, ThH, ThH>> >>,
      << <<ThH, ThH, ThH>>, <<TdA, TdB, TdQ>> >>,
      << <<TdA, TdB, TdQ>>, <<TdA, TdB>>, <<TdQ, TdA, TdB>> >> }

\* what an earlier run has left in a directory
OldCharacter == [name |-> <<"o">>, portrayal |-> <<"p">>, description |-> <<"q">>]

OldDataset == [exists |-> TRUE, content |-> ToWriterPretty(<<OldCharacter>>)]

OldBulk ==
    [exists |-> TRUE,
     content |-> BulkText(IndexName, <<"u0">>, FromStr(OldDataset.content).val.v, 1)]

SettingsFiles ==
    { NoFile,
      [exists |-> TRUE, content |-> <<"{", "}">>],
      [exists |-> TRUE, content |-> <<"{">>] }

\* a directory before the runs: settings.json present and valid, or not; the
\* artifacts of an earlier run present, or not
DirStates ==
    { [f \in FileNames |->
          CASE f = "settings.json" -> s
            [] f = "dataset.json" -> (IF old THEN OldDataset ELSE NoFile)
            [] OTHER -> (IF old THEN OldBulk ELSE NoFile)] :
      s \in SettingsFiles, old \in BOOLEAN }

\* main: the subcommand decides where the invocation starts
StartOf(c) == IF c = "index" THEN "create_index" ELSE "search_query"

\* run A ingests; run B ingests too, in the same directory or in another
\* one, or searches
Init ==
    /\ doc \in Pages
    /\ phase = "pipeline"
    /\ characters = <<>>
    /\ cell = [tag |-> "td", nodes |-> <<>>]
    /\ cellText = <<>>
    /\ cmd \in { c \in [Runs -> {"index", "search"}] : c["A"] = "index" }
    /\ cwd \in { w \in [Runs -> Dirs] : w["A"] = "d1" /\ (cmd["B"] = "search" => w["B"] = "d1") }
    /\ pc = [r \in Runs |-> StartOf(cmd[r])]
    /\ fs \in { g \in [Dirs -> DirStates] :
                  \A d \in Dirs : (\A r \in Runs : cwd[r] # d) => g[d] = [f \in FileNames |-> NoFile] }
    /\ fs0 = fs
    /\ issued = {"u0"}
    /\ store = <<>>
    /\ net = [r \in Runs |-> <<>>]
    /\ log = [r \in Runs |-> <<>>]
    /\ results = [r \in Runs |-> <<>>]
    /\ touched = [r \in Runs |-> {}]
    /\ extracted = [r \in Runs |-> <<>>]
    /\ values = [r \in Runs |-> <<>>]
    /\ encoded = [r \in Runs |-> <<>>]
    /\ chunks = [r \in Runs |-> <<>>]

Next ==
    \E r \in Runs :
        \/ CreateIndex(r)
        \/ GenerateDataset(r)
        \/ GenerateBulkInput(r)
        \/ ImportRead(r)
        \/ ImportSend(r)
        \/ SearchQuery(r)

Spec == Init /\ [][Next]_vars

----------------------------------------------------------------------------
\* Properties of the invocations.

IndexRuns == { r \in Runs : cmd[r] = "index" }

\* no other ingestion run works in the directory of run r
Alone(r) == \A s \in IndexRuns \ {r} : cwd[s] # cwd[r]

StageOrder ==
    <<"create_index", "generate_dataset", "generate_bulk_input", "import_bulk_input">>

\* the positions at which a run is inside a stage
PositionsOf(stage) ==
    IF stage = "import_bulk_input" THEN {"import_bulk_input", "import_send"} ELSE {stage}

BulkUrl == <<"http://localhost:9200/", IndexName, "/_doc/_bulk">>

\* the bulk requests a run has issued
BulkRequestsOf(r) == { i \in DOMAIN net[r] : net[r][i].url = BulkUrl }

\* has the run finished the stage with Ok
StageOk(r, stage) ==
    \E i \in DOMAIN results[r] :
        results[r][i].stage = stage /\ results[r][i].outcome = "Ok"

\* C1: in an ingestion run the stages happen in the order create_index,
\* generate_dataset, generate_bulk_input, import_bulk_input, each started
\* only after the one before it has returned Ok; once a stage fails no later
\* stage is started and the run has ended in failure.
C1_StagesInOrder ==
    \A r \in IndexRuns :
        LET h == results[r]
            n == Len(h)
        IN  /\ n <= Len(StageOrder)
            /\ \A i \in 1..n : h[i].stage = StageOrder[i]
            /\ \A i \in 1..(n - 1) : h[i].outcome = "Ok"
            /\ IF n > 0 /\ h[n].outcome # "Ok" THEN pc[r] \in {"failed", "panicked"}
               ELSE IF n = Len(StageOrder) THEN pc[r] = "done"
               ELSE pc[r] \in PositionsOf(StageOrder[n + 1])

\* run A has gone through the four stages; run B, an ingestion run too, has
\* failed in its second stage
C1_Witness ==
    /\ cmd["B"] = "index"
    /\ pc["A"] = "done" /\ Len(results["A"]) = 4
    /\ pc["B"] = "failed" /\ Len(results["B"]) = 2

\* the stages that ended on a response with a status outside 200..299
NonSuccessResults(r) ==
    { i \in DOMAIN results[r] :
        results[r][i].status # 0
        /\ ~(results[r][i].status >= 200 /\ results[r][i].status <= 299) }

IdsIn(l) == { id \in Uuids : id \in Range(l) }

\* C4: for a corpus of N values the payload written by generate_bulk_input
\* has exactly 2N lines, each ended by a line feed; line 2i-1 is a metadata
\* line naming the index and an identifier, line 2i is the JSON encoding of
\* the i-th value; the N identifiers are pairwise distinct; an empty corpus
\* gives an empty payload.
C4_TwoLinesPerRecord ==
    \A r \in IndexRuns :
        StageOk(r, "generate_bulk_input") =>
            LET n == Len(values[r])
                text == encoded[r]
                ls == SplitLines(text)
            IN  /\ Len(ls) = 2 * n
                /\ Cardinality({ i \in 1..Len(text) : text[i] = "NL" }) = 2 * n
                /\ n = 0 => text = <<>>
                /\ n > 0 => text[Len(text)] = "NL"
                /\ \A i \in 1..n :
                      /\ IndexName \in Range(ls[2 * i - 1])
                      /\ Cardinality(IdsIn(ls[2 * i - 1])) = 1
                      /\ FromStr(ls[2 * i]).ok
                      /\ FromStr(ls[2 * i]).val = values[r][i]
                /\ \A i, j \in 1..n :
                      i # j => IdsIn(ls[2 * i - 1]) # IdsIn(ls[2 * j - 1])

\* run A has encoded a corpus of two records, one with a quote, a carriage
\* return and a line feed in its text
C4_Witness ==
    /\ StageOk("A", "generate_bulk_input")
    /\ Len(values["A"]) = 2
    /\ "CR" \in Range(values["A"][1].v[<<"description">>].v)

\* the identifiers of the documents a run has sent in bulk requests
SentIds(r) ==
    UNION { IdsIn(l) : l \in UNION { Range(net[r][i].body) : i \in BulkRequestsOf(r) } }

\* C5: when two concurrent ingestion runs of the same N-record corpus into
\* the same index have both succeeded, no identifier was sent by both and
\* the backend holds 2N documents.
C5_NoIdentifierSentTwice ==
    (IndexRuns = Runs /\ \A r \in Runs : pc[r] = "done") =>
        /\ SentIds("A") \cap SentIds("B") = {}
        /\ Cardinality(DOMAIN store) = 2 * Len(ExtractCharacters(doc))

\* two ingestion runs that work in different directories: the property of C5
\* restricted to them
SeparateDirectoriesNoIdentifierSentTwice ==
    (IndexRuns = Runs /\ cwd["A"] # cwd["B"] /\ \A r \in Runs : pc[r] = "done") =>
        /\ SentIds("A") \cap SentIds("B") = {}
        /\ Cardinality(DOMAIN store) = 2 * Len(ExtractCharacters(doc))

\* C6: import_bulk_input never holds all the lines of the payload at once
\* (for a payload of more than one bulk operation).
C6_NeverWholePayloadInMemory ==
    \A r \in IndexRuns :
        LET total == Len(SplitLines(fs[cwd[r]]["bulk.json"].content))
        IN  total > 2 => Len(chunks[r]) < total

\* C7: when settings.json is missing or is no JSON, the ingestion run issues
\* no request at all and fails in create_index.
C7_NoRequestWithoutSettings ==
    \A r \in IndexRuns :
        LET f == fs[cwd[r]]["settings.json"]
        IN  (~f.exists \/ ~FromStr(f.content).ok) =>
                /\ net[r] = <<>>
                /\ pc[r] \in {"create_index", "failed"}
                /\ pc[r] = "failed" =>
                      Len(results[r]) = 1 /\ results[r][1].outcome = "Err"

\* run A has failed on a settings.json that is no JSON
C7_Witness ==
    /\ fs[cwd["A"]]["settings.json"].exists
    /\ ~FromStr(fs[cwd["A"]]["settings.json"].content).ok
    /\ pc["A"] = "failed"

\* has the run failed to fetch the source page
FetchFailed(r) ==
    \E i \in DOMAIN results[r] : results[r][i].cause = "fetch"

\* C8: when the fetch of the source page fails the run ends in failure, has
\* created, truncated or written no file, and issues no bulk request; with
\* no other run in its directory the files are as they were before the run.
C8_FetchFailureTouchesNothing ==
    \A r \in IndexRuns :
        FetchFailed(r) =>
            /\ pc[r] = "failed"
            /\ touched[r] = {}
            /\ BulkRequestsOf(r) = {}
            /\ Alone(r) => fs[cwd[r]] = fs0[cwd[r]]

\* run A, alone in a directory that holds the artifacts of an earlier run,
\* has failed to fetch the page
C8_Witness ==
    /\ FetchFailed("A")
    /\ Alone("A")
    /\ fs0[cwd["A"]]["dataset.json"].exists
    /\ fs0[cwd["A"]]["bulk.json"].exists

\* the JSON object of a character
CharacterValue(c) ==
    [t |-> "o",
     v |-> <<"name">> :> [t |-> "s", v |-> c.name]
           @@ <<"portrayal">> :> [t |-> "s", v |-> c.portrayal]
           @@ <<"description">> :> [t |-> "s", v |-> c.description]]

\* C10: in a run alone in its directory, the body of the bulk request is,
\* line for line, the text this run's generate_bulk_input wrote to
\* bulk.json, and its document lines encode the characters this run's
\* generate_dataset collected, in their order; nothing left by an earlier
\* run is sent.
C10_BodyIsThisRunsPayload ==
    \A r \in IndexRuns :
        Alone(r) =>
            \A q \in BulkRequestsOf(r) :
                LET body == net[r][q].body
                    n == Len(extracted[r])
                IN  /\ Concat(body) = encoded[r]
                    /\ fs[cwd[r]]["bulk.json"].content = encoded[r]
                    /\ Len(body) = 2 * n
                    /\ \A i \in 1..n :
                          /\ FromStr(body[2 * i]).ok
                          /\ FromStr(body[2 * i]).val = CharacterValue(extracted[r][i])
                    /\ "u0" \notin SentIds(r)

\* run A, alone in a directory that holds the payload of an earlier run, has
\* sent the payload of its two records
C10_Witness ==
    /\ Alone("A")
    /\ fs0[cwd["A"]]["bulk.json"].exists
    /\ BulkRequestsOf("A") # {}
    /\ Len(extracted["A"]) = 2
    /\ pc["A"] = "done"

----------------------------------------------------------------------------
\* Inputs of the extraction model.

\* rows of up to four td cells, a header row, and rows mixing th and td cells
RowInputs ==
    SeqsUpTo({TdA, TdB}, CellsPerRecord + 1)
        \cup { <<ThH, ThH, ThH>>, <<ThH, TdA, TdB>>, <<ThH, TdB, TdA, TdB>> }

Char == {"a", "NL"}

NodeInputs == SeqsUpTo(Char, MaxLen)

\* no invocation of the program runs in the extraction model
NoRuns ==
    /\ cmd = [r \in Runs |-> "none"]
    /\ cwd = [r \in Runs |-> "d1"]
    /\ pc = [r \in Runs |-> "done"]
    /\ fs = [d \in Dirs |-> [f \in FileNames |-> NoFile]]
    /\ fs0 = fs
    /\ issued = {}
    /\ store = <<>>
    /\ net = [r \in Runs |-> <<>>]
    /\ log = [r \in Runs |-> <<>>]
    /\ results = [r \in Runs |-> <<>>]
    /\ touched = [r \in Runs |-> {}]
    /\ extracted = [r \in Runs |-> <<>>]
    /\ values = [r \in Runs |-> <<>>]
    /\ encoded = [r \in Runs |-> <<>>]
    /\ chunks = [r \in Runs |-> <<>>]

InitExtract ==
    /\ doc = <<>>
    /\ phase = "input"
    /\ characters = <<>>
    /\ cell = [tag |-> "td", nodes |-> <<>>]
    /\ cellText = <<>>
    /\ NoRuns

\* the page holds one more row
AddRow ==
    /\ phase = "input"
    /\ cell.nodes = <<>>
    /\ Len(doc) < MaxRows
    /\ \E row \in RowInputs : doc' = Append(doc, row)
    /\ UNCHANGED <<phase, characters, cell, cellText, runVars>>

\* the cell under extraction holds one more text node
AddTextNode ==
    /\ phase = "input"
    /\ doc = <<>>
    /\ Len(cell.nodes) < MaxNodes
    /\ \E n \in NodeInputs : cell' = [cell EXCEPT !.nodes = Append(@, n)]
    /\ UNCHANGED <<doc, phase, characters, cellText, runVars>>

\* generate_dataset, lines 83-112, on the page
Extract ==
    /\ phase = "input"
    /\ phase' = "parsed"
    /\ characters' = ExtractCharacters(doc)
    /\ cellText' = ExtractCellText(cell)
    /\ UNCHANGED <<doc, cell, runVars>>

NextExtract == AddRow \/ AddTextNode \/ Extract

SpecExtract == InitExtract /\ [][NextExtract]_vars

----------------------------------------------------------------------------
\* Properties of the extraction.

\* the rows of the page that yield exactly three cell texts
ThreeCellRows == { i \in 1..Len(doc) : Len(SelectCells(doc[i])) = 3 }

\* C3: a row contributes a record iff it yields exactly three cell texts: as
\* many records as three-cell rows, in the order of their rows, each with
\* the row's 1st/2nd/3rd cell text as name/portrayal/description; the other
\* rows are dropped and the extraction still completes.
C3_RecordIffThreeCells ==
    phase = "parsed" =>
        /\ Len(characters) = Cardinality(ThreeCellRows)
        /\ \E f \in [1..Len(characters) -> ThreeCellRows] :
              /\ \A j, k \in 1..Len(characters) : j < k => f[j] < f[k]
              /\ \A k \in 1..Len(characters) :
                    LET texts == Dat(doc[f[k]])
                    IN  /\ characters[k].name = texts[1]
                        /\ characters[k].portrayal = texts[2]
                        /\ characters[k].description = texts[3]

\* a page whose first row has four cells and is dropped, and whose second
\* row has three cells and is kept
C3_Witness ==
    /\ phase = "parsed"
    /\ Len(doc) = 2
    /\ Len(SelectCells(doc[1])) = 4
    /\ Len(SelectCells(doc[2])) = 3
    /\ Len(characters) = 1
    /\ characters[1].name # characters[1].portrayal

\* the cell's joined text with one trailing newline, if any, removed
StripTrailingNewline(t) ==
    IF t # <<>> /\ t[Len(t)] = "NL" THEN SubSeq(t, 1, Len(t) - 1) ELSE t

\* C9: the extracted cell text is the concatenation of the cell's text nodes
\* with one trailing newline stripped; nothing but a trailing newline is
\* ever removed, whatever the text ends with.
C9_OnlyNewlineStripped ==
    phase = "parsed" => cellText = StripTrailingNewline(JoinedText(cell))

====
